---- MODULE Spec2Model ----
(***************************************************************************)
(* CrowdGuard AI, ML module: the crowd analytics engine                    *)
(* (analytics/crowd_analyzer.py), the frame pipeline                       *)
(* (processing/video_processor.py) and the API handlers that share one     *)
(* global VideoProcessor (main.py).                                        *)
(*                                                                         *)
(* Number representation.  The code computes in binary floating point;     *)
(* the model computes in fixed point:                                      *)
(*   density_score, risk_score (returned)  hundredths     (2.71 -> 271)    *)
(*   risk score before rounding             1/10000       (25.0 -> 250000) *)
(*   distances                              1/100 pixel                    *)
(*   velocities                             1/100 pixel per second         *)
(*   time_delta                             1/10 millisecond               *)
(* A distance is the square root taken down to 1/100 pixel, a velocity the  *)
(* quotient taken down to 1/100 pixel per second; the scores are exact on  *)
(* the inputs drawn below.                                                 *)
(***************************************************************************)
EXTENDS Integers, Sequences, FiniteSets, TLC

(***************************************************************************)
(* Program constants (config.py) and literals of the code.                 *)
(***************************************************************************)
FRAME_SAMPLE_RATE == 3
DENSITY_GRID_SIZE == 50
HIGH_DENSITY_THRESHOLD == 5
ANOMALY_MOVEMENT_THRESHOLD == 50
CLUSTERING_EPS == 100
MIN_CLUSTER_SIZE == 10
PIXELS_PER_SQM == 10000
MATCH_RANGE == 200
DEFAULT_TIME_DELTA_MS == 330
BACKOFF_MS == 5000
MIN_TIME_DELTA_MS == 1

\* The unit of time is a tenth of a millisecond: a time_delta given in seconds
\* is the number of tenths of a millisecond it holds.
TicksPerMs == 10

(***************************************************************************)
(* Arithmetic helpers.                                                     *)
(***************************************************************************)
Min(a, b) == IF a <= b THEN a ELSE b

Max(a, b) == IF a >= b THEN a ELSE b

\* round(): Python rounds a tie to the even neighbour.  num >= 0, den > 0.
RoundHalfEven(num, den) ==
    LET q == num \div den
        r == num % den
    IN  IF 2 * r < den THEN q
        ELSE IF 2 * r > den THEN q + 1
        ELSE IF q % 2 = 0 THEN q ELSE q + 1

\* int(): truncation toward zero of the quotient a / b, b > 0.
TruncDiv(a, b) == IF a >= 0 THEN a \div b ELSE -((-a) \div b)

RECURSIVE SqrtSearch(_, _, _)
SqrtSearch(n, lo, hi) ==
    IF lo >= hi THEN lo
    ELSE LET mid == (lo + hi + 1) \div 2
         IN  IF mid * mid <= n THEN SqrtSearch(n, mid, hi)
             ELSE SqrtSearch(n, lo, mid - 1)

\* The integer square root: the largest r with r * r <= n (n < 2^30).
ISqrt(n) == SqrtSearch(n, 0, 32767)

RECURSIVE SumSeq(_)
SumSeq(s) == IF s = <<>> THEN 0 ELSE Head(s) + SumSeq(Tail(s))

RECURSIVE MinSeq(_)
MinSeq(s) == IF Len(s) = 1 THEN s[1] ELSE Min(s[1], MinSeq(Tail(s)))

RECURSIVE MaxSeq(_)
MaxSeq(s) == IF Len(s) = 1 THEN s[1] ELSE Max(s[1], MaxSeq(Tail(s)))

\* Squared Euclidean distance of two points <<x, y>>.
Dist2(p, q) == (p[1] - q[1]) * (p[1] - q[1]) + (p[2] - q[2]) * (p[2] - q[2])

(***************************************************************************)
(* CrowdAnalyzer.  An analyzer object is a record; previous_positions is   *)
(* None exactly when has_previous is FALSE.  owner and stored_by are       *)
(* history fields: the source that constructed the analyzer and the source *)
(* whose frame stored previous_positions (0: none).                        *)
(***************************************************************************)
NoAnalyzer ==
    [exists |-> FALSE, frame_height |-> 0, frame_width |-> 0, frame_area |-> 0,
     has_previous |-> FALSE, previous_positions |-> <<>>,
     owner |-> 0, stored_by |-> 0]

\* A constructor that starts the history at the origin instead of None.
CrowdAnalyzer_origin(height, width, owner) ==
    [exists |-> TRUE, frame_height |-> height, frame_width |-> width,
     frame_area |-> height * width,
     has_previous |-> TRUE, previous_positions |-> << <<0, 0>> >>,
     owner |-> owner, stored_by |-> 0]

\* CrowdAnalyzer.__init__((height, width))
CrowdAnalyzer(height, width, owner) ==
    [exists |-> TRUE, frame_height |-> height, frame_width |-> width,
     frame_area |-> height * width,
     has_previous |-> FALSE, previous_positions |-> <<>>,
     owner |-> owner, stored_by |-> 0]

\* density / 2 * 100 before the clamp, rounded to hundredths:
\* person_count / (frame_area / 10000) / 2 * 100 is
\* person_count * 50 * 10000 / frame_area; the whole part and the fraction are
\* taken apart so that no intermediate value leaves 32 bits.
DensityBeforeClamp(frame_area, person_count) ==
    LET scaled == person_count * 50 * PIXELS_PER_SQM
        den == Max(frame_area, PIXELS_PER_SQM)
    IN  [whole |-> scaled \div den,
         rounded |-> (scaled \div den) * 100 + RoundHalfEven((scaled % den) * 100, den)]

\* The score taken of the area per person instead of the people per area.
calculate_density_score_inverse(frame_area, person_count) ==
    IF frame_area = 0 \/ person_count = 0 THEN 0
    ELSE Min(Max(frame_area, PIXELS_PER_SQM) \div (2 * person_count), 100 * 100)

\* The score without its clamp to 100.
calculate_density_score_unclamped(frame_area, person_count) ==
    IF frame_area = 0 THEN 0
    ELSE DensityBeforeClamp(frame_area, person_count).rounded

\* The score with max written for min.
calculate_density_score_max(frame_area, person_count) ==
    IF frame_area = 0 THEN 0
    ELSE LET density == DensityBeforeClamp(frame_area, person_count)
         IN  IF density.whole >= 100 THEN density.rounded ELSE 100 * 100

\* calculate_density_score, in hundredths.
\* min(person_count / max(frame_area / 10000, 1) / 2 * 100, 100), rounded.
calculate_density_score(frame_area, person_count) ==
    IF frame_area = 0 THEN 0
    ELSE LET density == DensityBeforeClamp(frame_area, person_count)
         IN  IF density.whole >= 100 THEN 100 * 100 ELSE density.rounded

(***************************************************************************)
(* detect_high_density_zones.  grid_counts is a grid_h x grid_w array; an  *)
(* index i into an axis of size n is in range when -n <= i < n, a negative *)
(* one counting from the end, and raises IndexError otherwise.             *)
(***************************************************************************)
GridH(an) == an.frame_height \div DENSITY_GRID_SIZE

GridW(an) == an.frame_width \div DENSITY_GRID_SIZE

GridX(an, p) == Min(TruncDiv(p[1], DENSITY_GRID_SIZE), GridW(an) - 1)

GridY(an, p) == Min(TruncDiv(p[2], DENSITY_GRID_SIZE), GridH(an) - 1)

InRange(i, n) == -n <= i /\ i < n

Wrap(i, n) == IF i < 0 THEN i + n ELSE i

\* Whether the tally loop raises IndexError on some center.
ZonesRaises(an, centers) ==
    \E k \in 1..Len(centers) :
        \/ ~InRange(GridY(an, centers[k]), GridH(an))
        \/ ~InRange(GridX(an, centers[k]), GridW(an))

\* grid_counts[i, j] after the tally loop.
GridCount(an, centers, i, j) ==
    Cardinality({k \in 1..Len(centers) :
        /\ Wrap(GridY(an, centers[k]), GridH(an)) = i
        /\ Wrap(GridX(an, centers[k]), GridW(an)) = j})

\* The zone record with the critical level taken from 2 x threshold on.
Zone_inclusive(an, centers, i, j) ==
    LET count == GridCount(an, centers, i, j)
    IN  [grid_position |-> <<j, i>>,
         bbox |-> <<j * DENSITY_GRID_SIZE, i * DENSITY_GRID_SIZE,
                    (j + 1) * DENSITY_GRID_SIZE, (i + 1) * DENSITY_GRID_SIZE>>,
         person_count |-> count,
         density_level |-> IF count >= HIGH_DENSITY_THRESHOLD * 2
                           THEN "critical" ELSE "high"]

Zone(an, centers, i, j) ==
    LET count == GridCount(an, centers, i, j)
    IN  [grid_position |-> <<j, i>>,
         bbox |-> <<j * DENSITY_GRID_SIZE, i * DENSITY_GRID_SIZE,
                    (j + 1) * DENSITY_GRID_SIZE, (i + 1) * DENSITY_GRID_SIZE>>,
         person_count |-> count,
         density_level |-> IF count > HIGH_DENSITY_THRESHOLD * 2
                           THEN "critical" ELSE "high"]

\* The zone list, rows outermost, for an input on which the tally does not raise.
detect_high_density_zones(an, centers) ==
    IF Len(centers) = 0 THEN <<>>
    ELSE LET cells == [n \in 1..(GridH(an) * GridW(an)) |->
                          <<(n - 1) \div GridW(an), (n - 1) % GridW(an)>>]
             dense(c) == GridCount(an, centers, c[1], c[2]) >= HIGH_DENSITY_THRESHOLD
             kept == SelectSeq(cells, dense)
         IN  [n \in 1..Len(kept) |-> Zone(an, centers, kept[n][1], kept[n][2])]

(***************************************************************************)
(* detect_clusters: DBSCAN(eps, min_samples).fit_predict, then one record  *)
(* per label, sorted by size, largest first.  A point's eps-neighbourhood  *)
(* holds the point itself; a core point has at least min_samples           *)
(* neighbours; clusters are grown from the unlabelled core points in index *)
(* order, through core points only, taking every point not yet labelled.   *)
(***************************************************************************)
\* nbr[i]: the indices of the points within eps of point i
Neighbors(centers) ==
    [i \in 1..Len(centers) |->
        {j \in 1..Len(centers) :
            Dist2(centers[i], centers[j]) <= CLUSTERING_EPS * CLUSTERING_EPS}]

CoreSamples(nbr) == {i \in DOMAIN nbr : Cardinality(nbr[i]) >= MIN_CLUSTER_SIZE}

RECURSIVE Expand(_, _, _, _)
Expand(nbr, core, members, labelled) ==
    LET more == {v \in DOMAIN nbr :
                    /\ v \notin labelled
                    /\ v \notin members
                    /\ \E u \in members \cap core : v \in nbr[u]}
    IN  IF more = {} THEN members ELSE Expand(nbr, core, members \cup more, labelled)

\* The clusters as index sets, in label order (label k is the k-th grown).
RECURSIVE FitPredict(_, _, _, _, _)
FitPredict(nbr, core, i, labelled, found) ==
    IF i > Len(nbr) THEN found
    ELSE IF i \in labelled \/ i \notin core
         THEN FitPredict(nbr, core, i + 1, labelled, found)
         ELSE LET members == Expand(nbr, core, {i}, labelled)
              IN  FitPredict(nbr, core, i + 1, labelled \cup members,
                             Append(found, members))

SetToSeq(S) ==
    LET n == Cardinality(S)
    IN  [k \in 1..n |-> CHOOSE x \in S : Cardinality({y \in S : y < x}) = k - 1]

Cluster(centers, label, members) ==
    LET idx == SetToSeq(members)
        xs == [k \in 1..Len(idx) |-> centers[idx[k]][1]]
        ys == [k \in 1..Len(idx) |-> centers[idx[k]][2]]
        size == Len(idx)
    IN  [cluster_id |-> label,
         size |-> size,
         \* the mean, in hundredths of a pixel
         center |-> <<(SumSeq(xs) * 100) \div size, (SumSeq(ys) * 100) \div size>>,
         bbox |-> <<MinSeq(xs), MinSeq(ys), MaxSeq(xs), MaxSeq(ys)>>,
         area |-> (MaxSeq(xs) - MinSeq(xs)) * (MaxSeq(ys) - MinSeq(ys))]

\* list.sort(key=size, reverse=True): stable, largest first.
RECURSIVE InsertBySize(_, _)
InsertBySize(sorted, c) ==
    IF sorted = <<>> THEN <<c>>
    ELSE IF Head(sorted).size >= c.size
         THEN <<Head(sorted)>> \o InsertBySize(Tail(sorted), c)
         ELSE <<c>> \o sorted

\* The cluster list left in label order.
SortBySize_unsorted(cs) == cs

RECURSIVE SortBySize(_)
SortBySize(cs) ==
    IF cs = <<>> THEN <<>>
    ELSE InsertBySize(SortBySize(SubSeq(cs, 1, Len(cs) - 1)), cs[Len(cs)])

detect_clusters(centers) ==
    IF Len(centers) < MIN_CLUSTER_SIZE THEN <<>>
    ELSE LET nbr == Neighbors(centers)
             found == FitPredict(nbr, CoreSamples(nbr), 1, {}, <<>>)
         IN  SortBySize([k \in 1..Len(found) |-> Cluster(centers, k - 1, found[k])])

(***************************************************************************)
(* calculate_movement.  Returns the average velocity (hundredths of a      *)
(* pixel per second), the branch taken and the analyzer after the call.    *)
(***************************************************************************)
\* The distance taken to the first previous position instead of the nearest.
MinDist2_first(previous_positions, curr_pos) == Dist2(previous_positions[1], curr_pos)

\* min over the previous positions of the squared distance to curr_pos
MinDist2(previous_positions, curr_pos) ==
    MinSeq([k \in 1..Len(previous_positions) |-> Dist2(previous_positions[k], curr_pos)])

\* min_dist / max(time_delta, 0.001), for min_dist < 200
Velocity(d2, time_delta) ==
    (ISqrt(d2 * 100 * 100) * 1000 * TicksPerMs)
        \div Max(time_delta, MIN_TIME_DELTA_MS * TicksPerMs)

\* Positions stored only when there are some: an empty frame leaves the
\* history as it was.
Store_nonempty(an, current_positions, by) ==
    IF Len(current_positions) = 0 THEN an
    ELSE [an EXCEPT !.has_previous = TRUE,
                    !.previous_positions = current_positions,
                    !.stored_by = by]

\* self.previous_positions = current_positions
Store(an, current_positions, by) ==
    [an EXCEPT !.has_previous = TRUE,
               !.previous_positions = current_positions,
               !.stored_by = by]

\* calculate_movement whose early returns leave the stored positions alone.
calculate_movement_early(an, current_positions, time_delta, by) ==
    IF ~an.has_previous
    THEN [velocity |-> 0, path |-> "first",
          analyzer |-> Store(an, current_positions, by)]
    ELSE IF Len(current_positions) = 0
    THEN [velocity |-> 0, path |-> "empty_current", analyzer |-> an]
    ELSE IF Len(an.previous_positions) = 0
    THEN [velocity |-> 0, path |-> "empty_previous",
          analyzer |-> Store(an, current_positions, by)]
    ELSE LET d2 == [k \in 1..Len(current_positions) |->
                       MinDist2(an.previous_positions, current_positions[k])]
             near(d) == d < MATCH_RANGE * MATCH_RANGE
             matched == SelectSeq(d2, near)
             velocities == [k \in 1..Len(matched) |-> Velocity(matched[k], time_delta)]
         IN  [velocity |-> IF Len(velocities) > 0
                           THEN SumSeq(velocities) \div Len(velocities) ELSE 0,
              path |-> IF Len(velocities) > 0 THEN "matched" ELSE "no_match",
              analyzer |-> Store(an, current_positions, by)]

calculate_movement(an, current_positions, time_delta, by) ==
    IF ~an.has_previous \/ Len(current_positions) = 0
    THEN [velocity |-> 0,
          path |-> IF ~an.has_previous THEN "first" ELSE "empty_current",
          analyzer |-> Store(an, current_positions, by)]
    ELSE IF Len(an.previous_positions) = 0
    THEN [velocity |-> 0, path |-> "empty_previous",
          analyzer |-> Store(an, current_positions, by)]
    ELSE LET d2 == [k \in 1..Len(current_positions) |->
                       MinDist2(an.previous_positions, current_positions[k])]
             near(d) == d < MATCH_RANGE * MATCH_RANGE
             matched == SelectSeq(d2, near)
             velocities == [k \in 1..Len(matched) |-> Velocity(matched[k], time_delta)]
         IN  [velocity |-> IF Len(velocities) > 0
                           THEN SumSeq(velocities) \div Len(velocities) ELSE 0,
              path |-> IF Len(velocities) > 0 THEN "matched" ELSE "no_match",
              analyzer |-> Store(an, current_positions, by)]

(***************************************************************************)
(* classify_risk.  risk is in 1/10000; the level is taken before rounding. *)
(***************************************************************************)
DensityFactor(density_score) == density_score * 40

\* The zone factor without its cap.
ZoneFactor_uncapped(nzones) == nzones * 10 * 10000

ZoneFactor(nzones) == Min(nzones * 10, 30) * 10000

VelocityFactor(avg_velocity) ==
    IF avg_velocity >= ANOMALY_MOVEMENT_THRESHOLD * 100 THEN 20 * 10000
    ELSE (avg_velocity * 20 * 100) \div ANOMALY_MOVEMENT_THRESHOLD

\* The count factor with the count taken per ten instead of per hundred.
CountFactor_tenth(person_count) == Min(person_count * 10000, 10 * 10000)

CountFactor(person_count) == Min(person_count * 1000, 10 * 10000)

RiskLevelOf(risk) ==
    IF risk < 25 * 10000 THEN "LOW"
    ELSE IF risk < 50 * 10000 THEN "MEDIUM"
    ELSE IF risk < 75 * 10000 THEN "HIGH"
    ELSE "CRITICAL"

\* The anomaly chain without the final override.
AnomalyOf_nooverride(risk_level, density_score, nzones, avg_velocity) ==
    IF avg_velocity > ANOMALY_MOVEMENT_THRESHOLD * 100 THEN "sudden_movement"
    ELSE IF nzones > 3 THEN "high_density"
    ELSE IF density_score > 70 * 100 THEN "clustering"
    ELSE "normal"

AnomalyOf(risk_level, density_score, nzones, avg_velocity) ==
    IF risk_level = "CRITICAL" THEN "rush_behavior"
    ELSE IF avg_velocity > ANOMALY_MOVEMENT_THRESHOLD * 100 THEN "sudden_movement"
    ELSE IF nzones > 3 THEN "high_density"
    ELSE IF density_score > 70 * 100 THEN "clustering"
    ELSE "normal"

classify_risk(person_count, density_score, high_density_zones, avg_velocity) ==
    LET nzones == Len(high_density_zones)
        risk == Min(DensityFactor(density_score) + ZoneFactor(nzones)
                      + VelocityFactor(avg_velocity) + CountFactor(person_count),
                    100 * 10000)
        level == RiskLevelOf(risk)
    IN  [risk_level |-> level,
         risk_score |-> RoundHalfEven(risk, 100),
         anomaly_type |-> AnomalyOf(level, density_score, nzones, avg_velocity)]

(***************************************************************************)
(* analyze.  detections are given by their centers.  The result tells      *)
(* whether the call raised (IndexError in the zone tally), the metrics it  *)
(* returned and the analyzer after the call; raw_velocity is the velocity  *)
(* classify_risk received, path the branch calculate_movement took.        *)
(***************************************************************************)
NoMetrics ==
    [total_count |-> 0, density_score |-> 0, risk_level |-> "LOW", risk_score |-> 0,
     anomaly_type |-> "normal", high_density_zones |-> <<>>, clusters |-> <<>>,
     avg_velocity |-> 0, frame_area |-> 0]

analyze(an, detections, time_delta, by) ==
    LET person_count == Len(detections)
        centers == detections
        density_score == calculate_density_score(an.frame_area, person_count)
    IN  IF ZonesRaises(an, centers)
        THEN [raised |-> TRUE, metrics |-> NoMetrics, raw_velocity |-> 0,
              path |-> "none", analyzer |-> an]
        ELSE LET high_density_zones == detect_high_density_zones(an, centers)
                 clusters == detect_clusters(centers)
                 mv == calculate_movement(an, centers, time_delta, by)
                 risk == classify_risk(person_count, density_score,
                                       high_density_zones, mv.velocity)
             IN  [raised |-> FALSE,
                  metrics |-> [total_count |-> person_count,
                               density_score |-> density_score,
                               risk_level |-> risk.risk_level,
                               risk_score |-> risk.risk_score,
                               anomaly_type |-> risk.anomaly_type,
                               high_density_zones |-> high_density_zones,
                               clusters |-> clusters,
                               avg_velocity |-> mv.velocity,
                               frame_area |-> an.frame_area],
                  raw_velocity |-> mv.velocity,
                  path |-> mv.path,
                  analyzer |-> mv.analyzer]

(***************************************************************************)
(* Bounds of the model and the inputs it draws.                            *)
(***************************************************************************)
\* Sources (files, live streams, websocket streams, single frames) submitted
\* to the one VideoProcessor.
MaxSources == 2

\* Frames a file holds at most; frames a live stream delivers at most.
MaxFrames == 4

Sources == 1..MaxSources

\* Replaced captures of a live stream that are counted while they stay open.
MaxStale == 1

\* The largest person count the scores are computed of on their own.
MaxCount == 120

\* (height, width) an analyzer is constructed with when it is driven
\* directly: no area, lower than one grid cell, one and two square metres.
DimsSet == {<<0, 100>>, <<40, 100>>, <<100, 100>>, <<100, 200>>}

\* (height, width) of the analyzers of the scenarios: one square metre and
\* the frame of test_analyzer.
ScenarioDims == {<<100, 100>>, <<720, 1280>>}

\* (height, width) of the frames of a file or a live stream.
SourceDims == {<<40, 100>>, <<100, 100>>, <<100, 200>>}

\* (height, width) of an image sent to the API.
ImageDims == {<<100, 100>>, <<100, 200>>}

\* fps a file reports (0: unknown).
FpsSet == {0, 25}

\* Wall-clock differences of a live stream.
LiveDeltas == {0, BACKOFF_MS * TicksPerMs}

Row(n, x0, y) == [k \in 1..n |-> <<x0 + 2 * k, y>>]

NoDetections == <<>>

OnePerson == << <<10, 10>> >>

\* the person of OnePerson, 50 px further
MovedPerson == << <<40, 50>> >>

\* a person more than 200 px from OnePerson
FarPerson == << <<199, 90>> >>

\* ten people: five in grid cell (0, 0), five in grid cell (1, 1)
Crowd10 == Row(5, 10, 20) \o Row(5, 60, 70)

\* twenty people: five in each cell of a 2 x 2 grid
Crowd20 == Row(5, 10, 20) \o Row(5, 60, 20) \o Row(5, 10, 70) \o Row(5, 60, 70)

\* the person of OnePerson, 153 px further (72, 135)
DriftPerson == << <<82, 145>> >>

\* fake_detections of test_analyzer
TestDetections == << <<100, 100>>, <<120, 105>>, <<105, 120>>, <<600, 400>>, <<605, 405>> >>

\* two groups 300 px apart: ten people, then eleven
TwoGroups == Row(10, 0, 10) \o Row(11, 300, 10)

\* thirteen people: one with two companions within eps, another 160 px from
\* the first with two companions of its own, and seven between the two,
\* within eps of both and of nobody else
SharedBorder ==
    << <<100, 100>>, <<10, 100>>, <<100, 10>> >>
        \o [k \in 1..7 |-> <<180, 96 + k>>]
        \o << <<260, 100>>, <<350, 100>>, <<260, 10>> >>

\* two people 410 px apart
MotionPrevious == << <<10, 10>>, <<300, 300>> >>

\* three people: 50 px from the first of MotionPrevious, exactly 200 px from
\* it (and 214 px from the second), 10 px from the second
MotionCurrent == << <<40, 50>>, <<130, 170>>, <<300, 310>> >>

\* a person exactly 200 px from OnePerson
EdgePerson == << <<130, 170>> >>

\* Detection lists (the centers) handed to analyze when the analyzer is
\* driven directly.
DetectionLists == {NoDetections, OnePerson, MovedPerson, FarPerson, Crowd10, Crowd20}

\* Detection lists of the scenarios.
ScenarioLists ==
    {NoDetections, OnePerson, DriftPerson, Crowd10, TestDetections, TwoGroups,
     SharedBorder}

\* What detect_people returns for a frame of a source (the centers).
FrameDetections == {NoDetections, OnePerson, MovedPerson}

\* time_delta values handed to analyze when the analyzer is driven directly:
\* -1 s, 0, the default and 5 s.
TimeDeltas ==
    {-1000 * TicksPerMs, 0, DEFAULT_TIME_DELTA_MS * TicksPerMs, BACKOFF_MS * TicksPerMs}

\* Detection lists of the motion estimate.
MotionLists ==
    {NoDetections, OnePerson, FarPerson, EdgePerson, MotionPrevious, MotionCurrent}

\* time_delta values of the motion estimate: 0.5 ms, 1 ms, the default.
MotionDeltas == {5, MIN_TIME_DELTA_MS * TicksPerMs, DEFAULT_TIME_DELTA_MS * TicksPerMs}

\* (height, width) of the analyzer of the motion estimate.
MotionDims == {<<400, 400>>}

\* (height, width) of the analyzers whose risk is classified on its own: one
\* and two square metres and the frame of test_analyzer.
RiskDims == {<<100, 100>>, <<100, 200>>, <<720, 1280>>}

\* Person counts handed to classify_risk: none, too few for a zone, and
\* counts around the cap of the count factor (100 people).
RiskCounts == {0, 1, 5, 20, 50, 99, 100, 101, MaxCount}

\* Zone counts handed to classify_risk: none, up to the cap of the zone
\* factor (3 zones) and beyond it.
ZoneCounts == 0..5

\* Average velocities handed to classify_risk, in hundredths of a pixel per
\* second: none, 25 px/s, the threshold, just past it, 600 px/s.
Velocities == {0, 2500, ANOMALY_MOVEMENT_THRESHOLD * 100,
               ANOMALY_MOVEMENT_THRESHOLD * 100 + 1, 60000}

\* time_delta values of the scenarios: the default and 12.5 s.
ScenarioDeltas == {DEFAULT_TIME_DELTA_MS * TicksPerMs, 12500 * TicksPerMs}

(***************************************************************************)
(* State.                                                                  *)
(*   analyzer  processor.analyzer of the global VideoProcessor             *)
(*   src       per source: the position of its handler and its locals;     *)
(*             open_error is the source named by the ValueError of a       *)
(*             failed open (0: none); since_fail lists what a live stream  *)
(*             did since its last failed read while no read was attempted  *)
(*             again, waited_ms the time it slept since; stale_handles     *)
(*             counts the captures it replaced that are still open         *)
(*   active    the source whose handler is running synchronous code (0:    *)
(*             none); a generator gives control back at a yield, a         *)
(*             coroutine at an await, process_rtsp_stream when it returns  *)
(*   last      the analyze call the last step made, if it made one         *)
(***************************************************************************)
VARIABLES analyzer, src, active, last

vars == <<analyzer, src, active, last>>

NoSource ==
    [kind |-> "none", pc |-> "new", height |-> 0, width |-> 0, fps |-> 0,
     frame_idx |-> 0,
     cap_open |-> FALSE, recovering |-> FALSE,
     analyzed |-> <<>>, emitted |-> <<>>,
     has_last |-> FALSE, last_detections |-> <<>>,
     open_error |-> 0,
     since_fail |-> <<>>, waited_ms |-> 0,
     stale_handles |-> 0]

NoCall ==
    [valid |-> FALSE, src |-> 0, kind |-> "none", frame_idx |-> 0,
     height |-> 0, width |-> 0, detections |-> <<>>, time_delta |-> 0,
     before |-> NoAnalyzer, reconnected |-> FALSE,
     src_has_last |-> FALSE, src_last_detections |-> <<>>,
     raised |-> FALSE, metrics |-> NoMetrics, raw_velocity |-> 0, path |-> "none"]

\* The record of one analyze call: by source s, on a frame of the given size,
\* with analyzer an, giving result r.
Call(s, height, width, detections, time_delta, an, r) ==
    [valid |-> TRUE, src |-> s, kind |-> src[s].kind, frame_idx |-> src[s].frame_idx,
     height |-> height, width |-> width, detections |-> detections,
     time_delta |-> time_delta, before |-> an,
     reconnected |-> src[s].recovering,
     src_has_last |-> src[s].has_last,
     src_last_detections |-> src[s].last_detections,
     raised |-> r.raised, metrics |-> r.metrics, raw_velocity |-> r.raw_velocity,
     path |-> r.path]

Init ==
    /\ analyzer = NoAnalyzer
    /\ src = [s \in Sources |-> NoSource]
    /\ active = 0
    /\ last = NoCall

\* Sources are numbered in the order they are submitted.
CanSubmit(s) ==
    /\ active = 0
    /\ src[s].kind = "none"
    /\ \A t \in Sources : t < s => src[t].kind # "none"

Running(s, pc) == active = s /\ src[s].pc = pc

\* The sampling test taken one frame late.
Sampled_late(s) == (src[s].frame_idx + 1) % FRAME_SAMPLE_RATE = 0

\* not (frame_idx % FRAME_SAMPLE_RATE != 0)
Sampled(s) == src[s].frame_idx % FRAME_SAMPLE_RATE = 0

\* The source after its handler ended in position pc: the handler's locals
\* are gone; what stays is the history of the frames it handled and whether
\* its capture is still open.
Ended(rec, pc, cap_open) ==
    [NoSource EXCEPT !.kind = rec.kind, !.pc = pc, !.cap_open = cap_open,
                     !.frame_idx = rec.frame_idx,
                     !.analyzed = rec.analyzed, !.emitted = rec.emitted,
                     !.stale_handles = rec.stale_handles]

\* The source's history after its frame was analyzed.
Analyzed(rec, detections) ==
    [rec EXCEPT !.analyzed = Append(@, rec.frame_idx),
                !.has_last = TRUE,
                !.last_detections = detections]

(***************************************************************************)
(* process_video_file: a generator.  FileOpen is the start of the first    *)
(* next(); FileResume is the start of every later one.                     *)
(***************************************************************************)
\* process_video_file with the analyzer constructed before the capture is
\* tested.
FileOpen_eager(s, opened, d, fps) ==
    /\ CanSubmit(s)
    /\ last' = NoCall
    /\ analyzer' = CrowdAnalyzer(d[1], d[2], s)
    /\ IF ~opened
       THEN /\ src' = [src EXCEPT ![s] = [@ EXCEPT !.kind = "file", !.pc = "raised",
                                                   !.open_error = s]]
            /\ UNCHANGED active
       ELSE /\ src' = [src EXCEPT ![s] =
                         [@ EXCEPT !.kind = "file", !.pc = "reading",
                                   !.height = d[1], !.width = d[2], !.fps = fps,
                                   !.cap_open = TRUE]]
            /\ active' = s

\* raise ValueError(f"Cannot open video: {video_path}") when the capture did
\* not open; else the properties are read and the analyzer constructed.
FileOpen(s, opened, d, fps) ==
    /\ CanSubmit(s)
    /\ last' = NoCall
    /\ IF ~opened
       THEN /\ src' = [src EXCEPT ![s] = [@ EXCEPT !.kind = "file", !.pc = "raised",
                                                   !.open_error = s]]
            /\ UNCHANGED <<analyzer, active>>
       ELSE /\ src' = [src EXCEPT ![s] =
                         [@ EXCEPT !.kind = "file", !.pc = "reading",
                                   !.height = d[1], !.width = d[2], !.fps = fps,
                                   !.cap_open = TRUE]]
            /\ analyzer' = CrowdAnalyzer(d[1], d[2], s)
            /\ active' = s

\* cap.read() returns no frame: leave the loop, release the capture.  The
\* file ends after any number of frames up to MaxFrames.
FileEOF(s) ==
    /\ Running(s, "reading")
    /\ src[s].kind = "file"
    /\ src' = [src EXCEPT ![s] = Ended(@, "done", FALSE)]
    /\ active' = 0
    /\ last' = NoCall
    /\ UNCHANGED analyzer

FileSkip(s) ==
    /\ Running(s, "reading")
    /\ src[s].kind = "file"
    /\ src[s].frame_idx < MaxFrames
    /\ ~Sampled(s)
    /\ src' = [src EXCEPT ![s] = [@ EXCEPT !.frame_idx = @ + 1]]
    /\ last' = NoCall
    /\ UNCHANGED <<analyzer, active>>

\* time_delta = 1.0 / fps * FRAME_SAMPLE_RATE (fps # 0)
FileTimeDelta(fps) == (1000 * TicksPerMs * FRAME_SAMPLE_RATE) \div fps

\* The heatmap has the analyzer's height and width; blending it with a frame
\* of another size (cv2.addWeighted) raises.  No heatmap is made of no
\* detections.
OverlayRaises(an, height, width, detections) ==
    /\ Len(detections) > 0
    /\ an.frame_height # height \/ an.frame_width # width

\* A sampled frame: detect, analyze, draw the overlay, show the preview, yield.
\* overlay_ok: no drawing call fails for a reason of its own.
\* quit: the preview is shown (show_preview) and the key read is 'q'.
FileProcess(s, detections, overlay_ok, quit) ==
    /\ Running(s, "reading")
    /\ src[s].kind = "file"
    /\ src[s].frame_idx < MaxFrames
    /\ Sampled(s)
    /\ active' = 0
    /\ IF src[s].fps = 0
       THEN \* ZeroDivisionError
            /\ src' = [src EXCEPT ![s] = Ended(@, "raised", TRUE)]
            /\ last' = NoCall
            /\ UNCHANGED analyzer
       ELSE LET td == FileTimeDelta(src[s].fps)
                r == analyze(analyzer, detections, td, s)
            IN  /\ last' = Call(s, src[s].height, src[s].width, detections, td, analyzer, r)
                /\ analyzer' = r.analyzer
                /\ IF r.raised
                   THEN src' = [src EXCEPT ![s] = Ended(@, "raised", TRUE)]
                   ELSE IF \/ ~overlay_ok
                           \/ OverlayRaises(analyzer, src[s].height, src[s].width,
                                            detections)
                   THEN src' = [src EXCEPT ![s] =
                                  Ended(Analyzed(@, detections), "raised", TRUE)]
                   ELSE IF quit
                   THEN src' = [src EXCEPT ![s] =
                                  Ended(Analyzed(@, detections), "done", FALSE)]
                   ELSE src' = [src EXCEPT ![s] =
                                  [Analyzed(@, detections) EXCEPT
                                      !.pc = "yielded",
                                      !.emitted = Append(@, src[s].frame_idx)]]

\* The consumer asks for the next result: frame_idx += 1, back to the read.
FileResume(s) ==
    /\ active = 0
    /\ src[s].kind = "file"
    /\ src[s].pc = "yielded"
    /\ src' = [src EXCEPT ![s] = [@ EXCEPT !.pc = "reading", !.frame_idx = @ + 1]]
    /\ active' = s
    /\ last' = NoCall
    /\ UNCHANGED analyzer

\* The consumer drops the generator at a yield: nothing after the yield runs.
FileClose(s) ==
    /\ active = 0
    /\ src[s].kind = "file"
    /\ src[s].pc = "yielded"
    /\ src' = [src EXCEPT ![s] = Ended(@, "closed", TRUE)]
    /\ last' = NoCall
    /\ UNCHANGED <<analyzer, active>>

(***************************************************************************)
(* process_rtsp_stream: a blocking call; it holds the thread from the      *)
(* connect until it returns.  One step per statement group of the loop.    *)
(* The stream is given a callback; emitted lists the frames handed to it.  *)
(***************************************************************************)
RtspOpen(s, opened, d) ==
    /\ CanSubmit(s)
    /\ last' = NoCall
    /\ IF ~opened
       THEN /\ src' = [src EXCEPT ![s] = [@ EXCEPT !.kind = "rtsp", !.pc = "raised",
                                                   !.open_error = s]]
            /\ UNCHANGED <<analyzer, active>>
       ELSE /\ src' = [src EXCEPT ![s] =
                         [@ EXCEPT !.kind = "rtsp", !.pc = "reading",
                                   !.height = d[1], !.width = d[2],
                                   !.cap_open = TRUE]]
            /\ analyzer' = CrowdAnalyzer(d[1], d[2], s)
            /\ active' = s

\* cap.read() gives a frame (only an opened capture does).
RtspRead(s) ==
    /\ Running(s, "reading")
    /\ src[s].kind = "rtsp"
    /\ src[s].cap_open
    /\ src[s].frame_idx < MaxFrames
    /\ src' = [src EXCEPT ![s] = [@ EXCEPT !.pc = "frame",
                                           !.since_fail = <<>>, !.waited_ms = 0]]
    /\ last' = NoCall
    /\ UNCHANGED <<analyzer, active>>

\* A failed read answered by the next read at once, with no wait and no reopen.
RtspReadFail_busy(s) ==
    /\ Running(s, "reading")
    /\ src[s].kind = "rtsp"
    /\ src' = [src EXCEPT ![s] = [@ EXCEPT !.pc = "reading", !.recovering = TRUE,
                                           !.since_fail = <<"fail">>,
                                           !.waited_ms = 0]]
    /\ last' = NoCall
    /\ UNCHANGED <<analyzer, active>>

\* cap.read() gives no frame.
RtspReadFail(s) ==
    /\ Running(s, "reading")
    /\ src[s].kind = "rtsp"
    /\ src' = [src EXCEPT ![s] = [@ EXCEPT !.pc = "backoff", !.recovering = TRUE,
                                           !.since_fail = <<"fail">>,
                                           !.waited_ms = 0]]
    /\ last' = NoCall
    /\ UNCHANGED <<analyzer, active>>

\* time.sleep(5)
RtspBackoff(s) ==
    /\ Running(s, "backoff")
    /\ src' = [src EXCEPT ![s] = [@ EXCEPT !.pc = "reopen",
                                           !.since_fail = Append(@, "wait"),
                                           !.waited_ms = @ + BACKOFF_MS]]
    /\ last' = NoCall
    /\ UNCHANGED <<analyzer, active>>

\* The open captures that nothing refers to any more once cap is bound to a
\* new capture: the capture replaced is released by no statement; when its
\* object is collected (collected), it is released then, and else it stays
\* open.
Replaced(rec, collected) ==
    rec.stale_handles + (IF rec.cap_open /\ ~collected THEN 1 ELSE 0)

\* A reconnect that also constructs a new analyzer.
RtspReopen_reset(s, opened, collected) ==
    /\ Running(s, "reopen")
    /\ Replaced(src[s], collected) <= MaxStale
    /\ src' = [src EXCEPT ![s] = [@ EXCEPT !.pc = "reading", !.cap_open = opened,
                                           !.since_fail = Append(@, "reopen"),
                                           !.stale_handles =
                                               Replaced(src[s], collected)]]
    /\ analyzer' = CrowdAnalyzer(src[s].height, src[s].width, s)
    /\ last' = NoCall
    /\ UNCHANGED active

\* cap = cv2.VideoCapture(rtsp_url); continue
RtspReopen(s, opened, collected) ==
    /\ Running(s, "reopen")
    /\ Replaced(src[s], collected) <= MaxStale
    /\ src' = [src EXCEPT ![s] = [@ EXCEPT !.pc = "reading", !.cap_open = opened,
                                           !.since_fail = Append(@, "reopen"),
                                           !.stale_handles =
                                               Replaced(src[s], collected)]]
    /\ last' = NoCall
    /\ UNCHANGED <<analyzer, active>>

RtspSkip(s) ==
    /\ Running(s, "frame")
    /\ ~Sampled(s)
    /\ src' = [src EXCEPT ![s] = [@ EXCEPT !.pc = "reading", !.frame_idx = @ + 1]]
    /\ last' = NoCall
    /\ UNCHANGED <<analyzer, active>>

\* time_delta = current_time - last_process_time, detect_people, analyze.
\* An exception leaves through the finally clause, which releases the capture.
RtspAnalyze(s, detections, td) ==
    /\ Running(s, "frame")
    /\ Sampled(s)
    /\ src[s].recovering => td >= BACKOFF_MS * TicksPerMs
    /\ LET r == analyze(analyzer, detections, td, s)
       IN  /\ last' = Call(s, src[s].height, src[s].width, detections, td, analyzer, r)
           /\ analyzer' = r.analyzer
           /\ IF r.raised
              THEN /\ src' = [src EXCEPT ![s] = Ended(@, "raised", FALSE)]
                   /\ active' = 0
              ELSE /\ src' = [src EXCEPT ![s] =
                                [Analyzed(@, detections) EXCEPT !.pc = "deliver"]]
                   /\ UNCHANGED active

\* callback(result); last_process_time = current_time; frame_idx += 1
RtspDeliver(s) ==
    /\ Running(s, "deliver")
    /\ src' = [src EXCEPT ![s] =
                 [@ EXCEPT !.pc = "reading",
                           !.emitted = Append(@, src[s].frame_idx),
                           !.frame_idx = @ + 1,
                           !.recovering = FALSE]]
    /\ last' = NoCall
    /\ UNCHANGED <<analyzer, active>>

\* KeyboardInterrupt anywhere in the try block: caught, the capture released.
RtspCancel(s) ==
    /\ active = s
    /\ src[s].kind = "rtsp"
    /\ src[s].pc \in {"reading", "frame", "backoff", "reopen", "deliver"}
    /\ src' = [src EXCEPT ![s] = Ended(@, "stopped", FALSE)]
    /\ active' = 0
    /\ last' = NoCall
    /\ UNCHANGED analyzer

(***************************************************************************)
(* main.py: the handlers of the API, all on the global processor.  Both    *)
(* construct an analyzer only when processor.analyzer is None.             *)
(***************************************************************************)
\* processor.analyzer after "if processor.analyzer is None: ..."
AnalyzerFor(height, width, s) ==
    IF analyzer.exists THEN analyzer ELSE CrowdAnalyzer(height, width, s)

\* POST /api/analyze/frame: one image, one analyze call (default time_delta).
AnalyzeFrame(s, d, detections) ==
    /\ CanSubmit(s)
    /\ LET an == AnalyzerFor(d[1], d[2], s)
           time_delta == DEFAULT_TIME_DELTA_MS * TicksPerMs
           r == analyze(an, detections, time_delta, s)
           rec == [src[s] EXCEPT !.kind = "frame", !.height = d[1], !.width = d[2]]
       IN  /\ last' = [Call(s, d[1], d[2], detections, time_delta, an, r)
                         EXCEPT !.kind = "frame"]
           /\ analyzer' = r.analyzer
           /\ src' = [src EXCEPT ![s] =
                        IF r.raised THEN Ended(rec, "raised", FALSE)
                        ELSE Ended([Analyzed(rec, detections) EXCEPT
                                       !.emitted = Append(@, 0)], "done", FALSE)]
    /\ UNCHANGED active

\* /ws/stream: accept the connection.
WsAccept(s) ==
    /\ CanSubmit(s)
    /\ src' = [src EXCEPT ![s] = [@ EXCEPT !.kind = "ws", !.pc = "open"]]
    /\ last' = NoCall
    /\ UNCHANGED <<analyzer, active>>

\* One received message: an image that does not decode is answered with an
\* error; any other is analyzed and answered.  An exception ends the handler.
WsFrame(s, decoded, d, detections) ==
    /\ active = 0
    /\ src[s].kind = "ws"
    /\ src[s].pc = "open"
    /\ IF ~decoded
       THEN /\ last' = NoCall
            /\ UNCHANGED <<analyzer, src>>
       ELSE LET an == AnalyzerFor(d[1], d[2], s)
                time_delta == DEFAULT_TIME_DELTA_MS * TicksPerMs
                r == analyze(an, detections, time_delta, s)
            IN  /\ last' = Call(s, d[1], d[2], detections, time_delta, an, r)
                /\ analyzer' = r.analyzer
                /\ src' = [src EXCEPT ![s] =
                             IF r.raised THEN Ended(@, "closed", FALSE)
                             ELSE [@ EXCEPT !.has_last = TRUE,
                                            !.last_detections = detections]]
    /\ UNCHANGED active

\* receive_bytes raises (the client went away): the handler ends.
WsClose(s) ==
    /\ active = 0
    /\ src[s].kind = "ws"
    /\ src[s].pc = "open"
    /\ src' = [src EXCEPT ![s] = Ended(@, "closed", FALSE)]
    /\ last' = NoCall
    /\ UNCHANGED <<analyzer, active>>

(***************************************************************************)
(* The specification.                                                      *)
(***************************************************************************)
FileStep(s) ==
    \/ \E opened \in BOOLEAN, d \in SourceDims, fps \in FpsSet : FileOpen(s, opened, d, fps)
    \/ FileEOF(s)
    \/ FileSkip(s)
    \/ \E detections \in FrameDetections, overlay_ok, quit \in BOOLEAN :
          FileProcess(s, detections, overlay_ok, quit)
    \/ FileResume(s)
    \/ FileClose(s)

\* The steps process_rtsp_stream takes by itself.
RtspStep(s) ==
    \/ RtspRead(s)
    \/ RtspReadFail(s)
    \/ RtspBackoff(s)
    \/ \E opened, collected \in BOOLEAN : RtspReopen(s, opened, collected)
    \/ RtspSkip(s)
    \/ \E detections \in FrameDetections, td \in LiveDeltas : RtspAnalyze(s, detections, td)
    \/ RtspDeliver(s)

ApiStep(s) ==
    \/ \E d \in ImageDims, detections \in FrameDetections : AnalyzeFrame(s, d, detections)
    \/ WsAccept(s)
    \/ \E decoded \in BOOLEAN, d \in ImageDims, detections \in FrameDetections :
          WsFrame(s, decoded, d, detections)
    \/ WsClose(s)

Next ==
    \E s \in Sources :
        \/ FileStep(s)
        \/ \E opened \in BOOLEAN, d \in SourceDims : RtspOpen(s, opened, d)
        \/ RtspStep(s)
        \/ RtspCancel(s)
        \/ ApiStep(s)

Spec == Init /\ [][Next]_vars

(***************************************************************************)
(* The analyzer driven directly: an analyzer of any of the frame sizes,    *)
(* constructed afresh at any time, and any sequence of analyze calls on    *)
(* it (source 1 stands for the caller).                                    *)
(***************************************************************************)
AnalyzerInit ==
    /\ analyzer \in {CrowdAnalyzer(d[1], d[2], 1) : d \in DimsSet}
    /\ src = [s \in Sources |-> NoSource]
    /\ active = 0
    /\ last = NoCall

Construct(d) ==
    /\ analyzer' = CrowdAnalyzer(d[1], d[2], 1)
    /\ last' = NoCall
    /\ UNCHANGED <<src, active>>

AnalyzeCall(detections, time_delta) ==
    LET r == analyze(analyzer, detections, time_delta, 1)
    IN  /\ last' = Call(1, analyzer.frame_height, analyzer.frame_width,
                        detections, time_delta, analyzer, r)
        /\ analyzer' = r.analyzer
        /\ UNCHANGED <<src, active>>

AnalyzerNext ==
    \/ \E d \in DimsSet : Construct(d)
    \/ \E detections \in DetectionLists, time_delta \in TimeDeltas :
          AnalyzeCall(detections, time_delta)

AnalyzerSpec == AnalyzerInit /\ [][AnalyzerNext]_vars

(***************************************************************************)
(* The analyzer driven through scenarios: test_analyzer's frame and        *)
(* detections, and further lists on which zones of both levels and         *)
(* clusters of different sizes arise.                                      *)
(***************************************************************************)
ScenarioInit ==
    /\ analyzer \in {CrowdAnalyzer(d[1], d[2], 1) : d \in ScenarioDims}
    /\ src = [s \in Sources |-> NoSource]
    /\ active = 0
    /\ last = NoCall

ScenarioNext ==
    \/ \E d \in ScenarioDims : Construct(d)
    \/ \E detections \in ScenarioLists, time_delta \in ScenarioDeltas :
          AnalyzeCall(detections, time_delta)

ScenarioSpec == ScenarioInit /\ [][ScenarioNext]_vars

(***************************************************************************)
(* The scores computed on their own: on an analyzer of any of the frame    *)
(* sizes, the density score and the count factor of any person count.      *)
(* last holds the count and the two values of the last step.               *)
(***************************************************************************)
ScoreInit ==
    /\ analyzer \in {CrowdAnalyzer(d[1], d[2], 1) : d \in DimsSet \cup ScenarioDims}
    /\ src = [s \in Sources |-> NoSource]
    /\ active = 0
    /\ last = NoCall

ScoreCall(person_count) ==
    /\ last' = [kind |-> "score", valid |-> FALSE,
                frame_area |-> analyzer.frame_area,
                person_count |-> person_count,
                density_score |-> calculate_density_score(analyzer.frame_area,
                                                          person_count),
                count_factor |-> CountFactor(person_count)]
    /\ UNCHANGED <<analyzer, src, active>>

ScoreNext ==
    \/ \E d \in DimsSet \cup ScenarioDims : Construct(d)
    \/ \E person_count \in 0..MaxCount : ScoreCall(person_count)

ScoreSpec == ScoreInit /\ [][ScoreNext]_vars

(***************************************************************************)
(* classify_risk on its own, on what analyze can hand it: the density      *)
(* score of the count on the analyzer's frame, as many zones as the count  *)
(* and the grid allow (each holds HIGH_DENSITY_THRESHOLD people or more),  *)
(* no velocity without people.  last holds the arguments, the four factors *)
(* and the result.                                                         *)
(***************************************************************************)
RiskInit ==
    /\ analyzer \in {CrowdAnalyzer(d[1], d[2], 1) : d \in RiskDims}
    /\ src = [s \in Sources |-> NoSource]
    /\ active = 0
    /\ last = NoCall

RiskCall(person_count, nzones, avg_velocity) ==
    /\ nzones * HIGH_DENSITY_THRESHOLD <= person_count
    /\ nzones <= GridH(analyzer) * GridW(analyzer)
    /\ person_count = 0 => avg_velocity = 0
    /\ LET density_score == calculate_density_score(analyzer.frame_area, person_count)
           high_density_zones == [n \in 1..nzones |-> n]
       IN  last' = [kind |-> "risk", valid |-> FALSE,
                    person_count |-> person_count,
                    density_score |-> density_score,
                    nzones |-> nzones,
                    avg_velocity |-> avg_velocity,
                    density_factor |-> DensityFactor(density_score),
                    zone_factor |-> ZoneFactor(nzones),
                    velocity_factor |-> VelocityFactor(avg_velocity),
                    count_factor |-> CountFactor(person_count),
                    result |-> classify_risk(person_count, density_score,
                                             high_density_zones, avg_velocity)]
    /\ UNCHANGED <<analyzer, src, active>>

RiskNext ==
    \/ \E d \in RiskDims : Construct(d)
    \/ \E person_count \in RiskCounts, nzones \in ZoneCounts, avg_velocity \in Velocities :
          RiskCall(person_count, nzones, avg_velocity)

RiskSpec == RiskInit /\ [][RiskNext]_vars

(***************************************************************************)
(* The motion estimate: analyze calls on lists of which some points match  *)
(* a previous point, some lie at the limit of the match range and some     *)
(* beyond it, with time_delta down to half a millisecond.                  *)
(***************************************************************************)
MotionInit ==
    /\ analyzer \in {CrowdAnalyzer(d[1], d[2], 1) : d \in MotionDims}
    /\ src = [s \in Sources |-> NoSource]
    /\ active = 0
    /\ last = NoCall

MotionNext ==
    \/ \E d \in MotionDims : Construct(d)
    \/ \E detections \in MotionLists, time_delta \in MotionDeltas :
          AnalyzeCall(detections, time_delta)

MotionSpec == MotionInit /\ [][MotionNext]_vars

\* The stream's loop keeps running while the call has the thread.
FairSpec == Spec /\ \A s \in Sources : WF_vars(RtspStep(s))

(***************************************************************************)
(* Properties of the analyzer (AnalyzerSpec).                              *)
(***************************************************************************)
\* The last step was an analyze call that returned metrics.
Returned == last.valid /\ ~last.raised

\* C1: every CrowdMetrics analyze returns has 0 <= density_score <= 100 and
\* 0 <= risk_score <= 100, whatever the frame size, the detections, the
\* time_delta and the calls made before.
C1_ScoresInRange ==
    Returned =>
        /\ 0 <= last.metrics.density_score
        /\ last.metrics.density_score <= 100 * 100
        /\ 0 <= last.metrics.risk_score
        /\ last.metrics.risk_score <= 100 * 100

\* Twenty people on one square metre (ten times the occupancy that scores
\* 100) moving fast: the density clamp and the velocity cap both act.
C1_Witness ==
    /\ Returned
    /\ last.metrics.total_count = 20
    /\ last.before.frame_area = PIXELS_PER_SQM
    /\ last.metrics.density_score = 100 * 100
    /\ last.raw_velocity > ANOMALY_MOVEMENT_THRESHOLD * 100
    /\ last.metrics.risk_score > 90 * 100

\* C2: after every analyze call that returns, on every branch of
\* calculate_movement, the analyzer's previous_positions are the centers of
\* the detections of that call.
C2_PreviousOverwritten ==
    Returned =>
        /\ analyzer.has_previous
        /\ analyzer.previous_positions = last.detections
        /\ last.path \in {"first", "empty_current", "empty_previous",
                          "no_match", "matched"}

\* A call with no detections on an analyzer that had positions stored.
C2_Witness ==
    /\ Returned
    /\ last.path = "empty_current"
    /\ Len(last.before.previous_positions) > 0
    /\ analyzer.previous_positions = <<>>

\* C3: the first analyze call on a freshly constructed analyzer (no call has
\* stored positions in it) returns avg_velocity 0.0.
C3_FirstCallZeroVelocity ==
    (Returned /\ last.before.stored_by = 0) => last.metrics.avg_velocity = 0

\* A first call with detections and a time_delta that would give a velocity.
C3_Witness ==
    /\ Returned
    /\ last.before.stored_by = 0
    /\ Len(last.detections) > 0
    /\ last.time_delta > 0
    /\ last.path = "first"

\* C4: an analyze call with zero detections returns, in any analyzer state,
\* density_score 0, no zones, no clusters, avg_velocity 0, LOW and normal.
C4_ZeroDetections ==
    (last.valid /\ Len(last.detections) = 0) =>
        /\ ~last.raised
        /\ last.metrics.density_score = 0
        /\ last.metrics.high_density_zones = <<>>
        /\ last.metrics.clusters = <<>>
        /\ last.metrics.avg_velocity = 0
        /\ last.metrics.risk_level = "LOW"
        /\ last.metrics.anomaly_type = "normal"

\* Zero detections right after a call that stored a crowd.
C4_Witness ==
    /\ last.valid
    /\ Len(last.detections) = 0
    /\ last.before.has_previous
    /\ Len(last.before.previous_positions) = 20

\* C5: the anomaly type is rush_behavior whenever the risk level is CRITICAL;
\* otherwise sudden_movement when avg_velocity > ANOMALY_MOVEMENT_THRESHOLD,
\* else high_density when there are more than 3 zones, else clustering when
\* density_score > 70, else normal.
C5_AnomalyOrder ==
    Returned =>
        last.metrics.anomaly_type =
            CASE last.metrics.risk_level = "CRITICAL" -> "rush_behavior"
              [] last.metrics.risk_level # "CRITICAL"
                   /\ last.raw_velocity > ANOMALY_MOVEMENT_THRESHOLD * 100
                   -> "sudden_movement"
              [] last.metrics.risk_level # "CRITICAL"
                   /\ last.raw_velocity <= ANOMALY_MOVEMENT_THRESHOLD * 100
                   /\ Len(last.metrics.high_density_zones) > 3
                   -> "high_density"
              [] last.metrics.risk_level # "CRITICAL"
                   /\ last.raw_velocity <= ANOMALY_MOVEMENT_THRESHOLD * 100
                   /\ Len(last.metrics.high_density_zones) <= 3
                   /\ last.metrics.density_score > 70 * 100
                   -> "clustering"
              [] OTHER -> "normal"

\* A CRITICAL result whose velocity alone would have given sudden_movement.
C5_Witness ==
    /\ Returned
    /\ last.metrics.risk_level = "CRITICAL"
    /\ last.raw_velocity > ANOMALY_MOVEMENT_THRESHOLD * 100
    /\ last.metrics.anomaly_type = "rush_behavior"

(***************************************************************************)
(* Properties of the frame pipeline (Spec, FairSpec).                      *)
(***************************************************************************)
Range(seq) == {seq[k] : k \in 1..Len(seq)}

IsIncreasing(seq) == \A k \in 1..(Len(seq) - 1) : seq[k] < seq[k + 1]

\* C6: on a live source, after a failed read and a reconnect, the analyze
\* call of the next sampled frame is made on the analyzer the stream
\* constructed, and the previous_positions it finds there are the centers of
\* the last frame the stream analyzed before the failure.
C6_ReconnectKeepsHistory ==
    (last.valid /\ last.kind = "rtsp" /\ last.reconnected /\ last.src_has_last) =>
        /\ last.before.owner = last.src
        /\ last.before.has_previous
        /\ last.before.previous_positions = last.src_last_detections
        /\ last.before.stored_by = last.src

\* After a reconnect, the person of the last analyzed frame is matched 50 px
\* further, 5 s later: 10 px/s.
C6_Witness ==
    /\ Returned
    /\ last.kind = "rtsp"
    /\ last.reconnected
    /\ last.src_last_detections = OnePerson
    /\ last.detections = MovedPerson
    /\ last.path = "matched"
    /\ last.raw_velocity = 10 * 100

\* C7: on a live source a failed read does not end processing (the loop goes
\* on to the backoff, the reconnect and the next read unless it is
\* cancelled), and once a read succeeds again on a sampled frame, its result
\* is eventually delivered to the callback, unless the stream is cancelled.
C7_FailedReadRecovers ==
    /\ [][\A s \in Sources :
            (src[s].kind = "rtsp" /\ src[s].pc \in {"backoff", "reopen"})
                => src'[s].pc \in {"backoff", "reopen", "reading", "stopped"}]_vars
    /\ \A s \in Sources :
          (src[s].kind = "rtsp" /\ src[s].pc = "frame" /\ src[s].recovering /\ Sampled(s))
              ~> (\/ src[s].pc = "stopped"
                  \/ src[s].pc = "reading" /\ ~src[s].recovering)

\* C8: every analyze call is made on an analyzer constructed with the height
\* and width of the frame it is made for.
C8_AnalyzerMatchesFrame ==
    last.valid =>
        /\ last.before.frame_height = last.height
        /\ last.before.frame_width = last.width

\* C9: the previous_positions a frame's velocity is measured against were
\* stored by an earlier frame of the same source.
C9_HistoryOfOwnSource ==
    (last.valid /\ last.kind \in {"file", "rtsp", "ws"}
                /\ last.path \in {"matched", "no_match"})
        => last.before.stored_by = last.src

\* C10: of the frames a file or a live stream has gone through, exactly those
\* whose index is a multiple of FRAME_SAMPLE_RATE were analyzed and emitted,
\* in increasing order; going past a frame of any other index makes no
\* analyze call, emits nothing and leaves the analyzer as it was.
C10_Sampling ==
    /\ [](\A s \in Sources :
            src[s].kind \in {"file", "rtsp"} =>
                /\ IsIncreasing(src[s].analyzed)
                /\ IsIncreasing(src[s].emitted)
                /\ Range(src[s].emitted) \subseteq Range(src[s].analyzed)
                /\ \A i \in Range(src[s].analyzed) :
                      i % FRAME_SAMPLE_RATE = 0 /\ i <= src[s].frame_idx
                /\ \A i \in 0..(src[s].frame_idx - 1) :
                      i % FRAME_SAMPLE_RATE = 0 <=> i \in Range(src[s].emitted))
    /\ [][\A s \in Sources :
            (/\ src[s].frame_idx % FRAME_SAMPLE_RATE # 0
             /\ src'[s].frame_idx = src[s].frame_idx + 1)
                => /\ analyzer' = analyzer
                   /\ src'[s].analyzed = src[s].analyzed
                   /\ src'[s].emitted = src[s].emitted
                   /\ ~last'.valid]_vars

\* A file read to its fifth frame: frames 0 and 3 emitted, 1 and 2 skipped.
C10_Witness ==
    \E s \in Sources :
        /\ src[s].kind = "file"
        /\ src[s].frame_idx = 4
        /\ src[s].analyzed = <<0, 3>>
        /\ src[s].emitted = <<0, 3>>

\* C11: a frame of a file source that was analyzed has its result emitted,
\* and the generator goes on (it is suspended at the yield), also when the
\* drawing of the overlay fails; only the preview's quit key ends the
\* processing after an analysis.
C11_OverlayFailureKeepsResult ==
    (last.valid /\ last.kind = "file" /\ ~last.raised) =>
        \/ /\ src[last.src].pc = "yielded"
           /\ last.frame_idx \in Range(src[last.src].emitted)
        \/ src[last.src].pc = "done"

\* C12: on an analyzer whose frame area is zero, every analyze call, also one
\* with detections, returns (raises no error), with density_score 0.0, no
\* zones and no clusters.
C12_ZeroAreaDefined ==
    (last.valid /\ last.before.frame_area = 0) =>
        /\ ~last.raised
        /\ last.metrics.density_score = 0
        /\ last.metrics.high_density_zones = <<>>
        /\ last.metrics.clusters = <<>>

\* C13: when a live stream has stopped on cancellation, every frame it
\* analyzed (the last one, whose positions the analyzer holds, included) had
\* its result delivered to the callback.
C13_CancelBetweenFrames ==
    \A s \in Sources :
        (src[s].kind = "rtsp" /\ src[s].pc = "stopped") =>
            Range(src[s].analyzed) \subseteq Range(src[s].emitted)

\* C14: when a file or a live stream cannot be opened, the call raises the
\* error naming the source at once: the processor's analyzer is left as it
\* was, no frame is read, analyzed or emitted, no capture stays open, and the
\* call takes no further step (no second attempt).
C14_OpenFailure ==
    /\ [][\A s \in Sources :
            (/\ src[s].kind = "none"
             /\ src'[s].kind \in {"file", "rtsp"}
             /\ src'[s].pc = "raised")
                => /\ src'[s].open_error = s
                   /\ analyzer' = analyzer
                   /\ active' = active
                   /\ ~last'.valid
                   /\ ~src'[s].cap_open
                   /\ src'[s].frame_idx = 0
                   /\ src'[s].analyzed = <<>>
                   /\ src'[s].emitted = <<>>]_vars
    /\ [][\A s \in Sources : src[s].open_error # 0 => src'[s] = src[s]]_vars

\* A source failed to open while the processor held the analyzer of an
\* earlier source (sources are numbered in the order they are submitted)
\* with its stored positions.
C14_Witness ==
    \E s \in Sources :
        /\ src[s].open_error = s
        /\ analyzer.exists
        /\ analyzer.owner < s
        /\ analyzer.has_previous
        /\ Len(analyzer.previous_positions) > 0

\* C15: a file that was opened and whose consumer pulls to the end (the
\* generator is neither dropped at a yield nor ended by the preview's quit
\* key, after which a frame is analyzed but not emitted) ends at end-of-file
\* and by nothing else, and has then yielded exactly
\* ceil(F / FRAME_SAMPLE_RATE) results, F being the frames read.
C15_FileExhausts ==
    \A s \in Sources :
        (/\ src[s].kind = "file"
         /\ src[s].open_error = 0
         /\ src[s].pc \in {"done", "raised"}
         /\ ~(src[s].pc = "done" /\ src[s].analyzed # src[s].emitted))
            => /\ src[s].pc = "done"
               /\ Len(src[s].emitted) =
                     (src[s].frame_idx + FRAME_SAMPLE_RATE - 1) \div FRAME_SAMPLE_RATE

(***************************************************************************)
(* Properties of the analyzer on the scenarios (ScenarioSpec).             *)
(***************************************************************************)
\* The number of the call's centers that lie in the cell (row, col) of the
\* grid of rows x cols cells, a center beyond the grid counting for the last
\* row or column.
Occupancy(call, row, col) ==
    LET rows == call.before.frame_height \div DENSITY_GRID_SIZE
        cols == call.before.frame_width \div DENSITY_GRID_SIZE
    IN  Cardinality({k \in 1..Len(call.detections) :
            /\ Min(call.detections[k][2] \div DENSITY_GRID_SIZE, rows - 1) = row
            /\ Min(call.detections[k][1] \div DENSITY_GRID_SIZE, cols - 1) = col})

\* C16: the zone list holds exactly one zone for each grid cell whose
\* occupancy is >= HIGH_DENSITY_THRESHOLD and none for any other cell; a
\* zone's person_count is its cell's occupancy and its density_level is
\* critical exactly when that is > 2 x HIGH_DENSITY_THRESHOLD, else high.
C16_ZonesExactly ==
    Returned =>
        LET zones == last.metrics.high_density_zones
            rows == last.before.frame_height \div DENSITY_GRID_SIZE
            cols == last.before.frame_width \div DENSITY_GRID_SIZE
        IN  /\ \A row \in 0..(rows - 1), col \in 0..(cols - 1) :
                  Cardinality({n \in 1..Len(zones) :
                                  zones[n].grid_position = <<col, row>>})
                    = IF Occupancy(last, row, col) >= HIGH_DENSITY_THRESHOLD
                      THEN 1 ELSE 0
            /\ \A n \in 1..Len(zones) :
                  LET col == zones[n].grid_position[1]
                      row == zones[n].grid_position[2]
                  IN  /\ row \in 0..(rows - 1)
                      /\ col \in 0..(cols - 1)
                      /\ zones[n].person_count = Occupancy(last, row, col)
                      /\ zones[n].density_level =
                            IF Occupancy(last, row, col) > 2 * HIGH_DENSITY_THRESHOLD
                            THEN "critical" ELSE "high"

\* A cell of exactly 2 x HIGH_DENSITY_THRESHOLD people (high) beside a cell of
\* one more (critical), in a grid with empty cells.
C16_Witness ==
    /\ Returned
    /\ \E a, b \in 1..Len(last.metrics.high_density_zones) :
          /\ last.metrics.high_density_zones[a].person_count = 2 * HIGH_DENSITY_THRESHOLD
          /\ last.metrics.high_density_zones[a].density_level = "high"
          /\ last.metrics.high_density_zones[b].person_count = 2 * HIGH_DENSITY_THRESHOLD + 1
          /\ last.metrics.high_density_zones[b].density_level = "critical"
    /\ Len(last.metrics.high_density_zones) = 2
    /\ last.before.frame_area > PIXELS_PER_SQM

\* C17: the cluster list is ordered by size, largest first: of two
\* consecutive clusters the earlier is at least as large as the later.
C17_ClustersBySize ==
    Returned =>
        \A k \in 1..(Len(last.metrics.clusters) - 1) :
            last.metrics.clusters[k].size >= last.metrics.clusters[k + 1].size

\* Two clusters of which the one found second (label 1) is the larger and
\* comes first.
C17_Witness ==
    /\ Returned
    /\ Len(last.metrics.clusters) = 2
    /\ last.metrics.clusters[1].cluster_id = 1
    /\ last.metrics.clusters[2].cluster_id = 0
    /\ last.metrics.clusters[1].size > last.metrics.clusters[2].size

\* C19: the first analyze call on a fresh 720 x 1280 analyzer with the five
\* detections of test_analyzer returns density_score 2.71, no zones, no
\* clusters, avg_velocity 0.0, risk_score 1.58, LOW and normal.
C19_TestScenario ==
    (/\ last.valid
     /\ ~last.before.has_previous
     /\ last.before.frame_height = 720
     /\ last.before.frame_width = 1280
     /\ last.detections = TestDetections)
        => /\ ~last.raised
           /\ last.metrics.total_count = 5
           /\ last.metrics.density_score = 271
           /\ last.metrics.high_density_zones = <<>>
           /\ last.metrics.clusters = <<>>
           /\ last.metrics.avg_velocity = 0
           /\ last.metrics.risk_score = 158
           /\ last.metrics.risk_level = "LOW"
           /\ last.metrics.anomaly_type = "normal"

\* The call test_analyzer makes (time_delta left at its default).
C19_Witness ==
    /\ last.valid
    /\ ~last.before.has_previous
    /\ last.before.frame_area = 720 * 1280
    /\ last.detections = TestDetections
    /\ last.time_delta = DEFAULT_TIME_DELTA_MS * TicksPerMs
    /\ analyzer.previous_positions = TestDetections

\* C20: the returned risk_level is the level of the returned (two-decimal)
\* risk_score: LOW exactly when it is < 25, MEDIUM when 25 <= it < 50, HIGH
\* when 50 <= it < 75, CRITICAL when it is >= 75.
C20_LevelOfReturnedScore ==
    Returned =>
        last.metrics.risk_level =
            IF last.metrics.risk_score < 25 * 100 THEN "LOW"
            ELSE IF last.metrics.risk_score < 50 * 100 THEN "MEDIUM"
            ELSE IF last.metrics.risk_score < 75 * 100 THEN "HIGH"
            ELSE "CRITICAL"

(***************************************************************************)
(* Properties of the scores (ScoreSpec).                                   *)
(***************************************************************************)
\* C18: on one analyzer (the frame area fixed), of two person counts n <= m
\* scored one after the other, the density score of n is <= that of m and
\* the count factor of n is <= that of m.
C18_Monotone ==
    [][(/\ last.kind = "score"
        /\ last'.kind = "score"
        /\ last.frame_area = last'.frame_area
        /\ last.person_count <= last'.person_count)
           => /\ last.density_score <= last'.density_score
              /\ last.count_factor <= last'.count_factor]_vars

\* On test_analyzer's frame, a count past the cap of the count factor (100
\* people) with the density score still below its clamp.
C18_Witness ==
    /\ last.kind = "score"
    /\ last.frame_area = 720 * 1280
    /\ last.person_count > 100
    /\ last.count_factor = 10 * 10000
    /\ 0 < last.density_score
    /\ last.density_score < 100 * 100

\* C21: on a frame of at least one assumed square metre (area_sqm =
\* frame_area / PIXELS_PER_SQM), a count of 0.5 people per square metre has
\* density_score 50, and every count of 2 people per square metre or more has
\* density_score 100.
C21_Normalization ==
    (last.kind = "score" /\ last.frame_area >= PIXELS_PER_SQM) =>
        /\ 2 * last.person_count * PIXELS_PER_SQM = last.frame_area
              => last.density_score = 50 * 100
        /\ last.person_count * PIXELS_PER_SQM >= 2 * last.frame_area
              => last.density_score = 100 * 100

(***************************************************************************)
(* Properties of the analyzer's parts (AnalyzerSpec, MotionSpec).          *)
(***************************************************************************)
\* C22: on every analyze call with detections, whatever the frame size, the
\* zone tally raises no error and counts every center in exactly one cell
\* (row, col) with 0 <= row < rows and 0 <= col < cols.
C22_TallyInGrid ==
    (last.valid /\ Len(last.detections) > 0) =>
        LET rows == GridH(last.before)
            cols == GridW(last.before)
        IN  /\ ~last.raised
            /\ \A k \in 1..Len(last.detections) :
                  LET col == GridX(last.before, last.detections[k])
                      row == GridY(last.before, last.detections[k])
                  IN  /\ 0 <= col /\ col < cols
                      /\ 0 <= row /\ row < rows
                      /\ Cardinality({c \in (0..(rows - 1)) \X (0..(cols - 1)) :
                             c = <<Wrap(row, rows), Wrap(col, cols)>>}) = 1

\* A call with detections on an analyzer that holds previous positions.
HasMotion(call) ==
    /\ call.valid
    /\ ~call.raised
    /\ Len(call.detections) > 0
    /\ call.before.has_previous
    /\ Len(call.before.previous_positions) > 0

\* The mean, over the call's current points whose nearest previous point is
\* less than 200 px away, of that distance divided by the given time; 0 when
\* there is no such point.
MeanOfMatched(call, time) ==
    LET previous == call.before.previous_positions
        current == call.detections
        nearest2(k) ==
            CHOOSE d \in {Dist2(previous[j], current[k]) : j \in DOMAIN previous} :
                \A j \in DOMAIN previous : d <= Dist2(previous[j], current[k])
        included == {k \in DOMAIN current : nearest2(k) < MATCH_RANGE * MATCH_RANGE}
        speed(k) == (ISqrt(nearest2(k) * 100 * 100) * 1000 * TicksPerMs) \div time
    IN  IF included = {} THEN 0
        ELSE SumSeq([k \in DOMAIN current |-> IF k \in included THEN speed(k) ELSE 0])
                 \div Cardinality(included)

\* C23, as stated: on an analyze call with time_delta > 0, current positions
\* and stored previous positions, avg_velocity is the mean, over the current
\* points whose nearest previous point is less than 200 px away, of that
\* distance divided by time_delta, and 0.0 when there is no such point.
C23_MeanOfMatched ==
    (HasMotion(last) /\ last.time_delta > 0) =>
        last.metrics.avg_velocity = MeanOfMatched(last, last.time_delta)

\* C23, amended: the same, the distance being divided by
\* max(time_delta, 0.001): a time_delta below one millisecond counts as one
\* millisecond.
C23_MeanOfMatchedFloored ==
    (HasMotion(last) /\ last.time_delta > 0) =>
        last.metrics.avg_velocity =
            MeanOfMatched(last, Max(last.time_delta, MIN_TIME_DELTA_MS * TicksPerMs))

\* Half a millisecond after two people were seen, three are: one 50 px and
\* one 10 px from a previous point, one exactly 200 px from the nearest; the
\* mean is that of 50 px and 10 px in one millisecond, 30000 px/s.
C23_Witness ==
    /\ Returned
    /\ last.before.previous_positions = MotionPrevious
    /\ last.detections = MotionCurrent
    /\ last.time_delta = 5
    /\ last.path = "matched"
    /\ last.metrics.avg_velocity = 30000 * 100

(***************************************************************************)
(* Properties of the risk score (RiskSpec).                                *)
(***************************************************************************)
\* C24: no factor of the risk score is more than its cap (density 40, zones
\* 30, velocity 20, count 10), and the returned risk_score is the sum of
\* density_score x 0.4, 10 per zone, avg_velocity /
\* ANOMALY_MOVEMENT_THRESHOLD x 20 and count / 100 x 10, each taken up to its
\* cap, the total taken up to 100 (and rounded to hundredths).
C24_CappedFactors ==
    last.kind = "risk" =>
        /\ last.density_factor <= 40 * 10000
        /\ last.zone_factor <= 30 * 10000
        /\ last.velocity_factor <= 20 * 10000
        /\ last.count_factor <= 10 * 10000
        /\ LET density == Min(last.density_score * 40, 40 * 10000)
               zones == Min(last.nzones * 10 * 10000, 30 * 10000)
               \* hundredths of a pixel per second / 50 x 20, in 1/10000
               velocity == Min((last.avg_velocity * 40 * 50)
                                   \div ANOMALY_MOVEMENT_THRESHOLD, 20 * 10000)
               count == Min(last.person_count * 1000, 10 * 10000)
               total == Min(density + zones + velocity + count, 100 * 10000)
           IN  last.result.risk_score = RoundHalfEven(total, 100)

\* Every factor at its cap at once: 100 people or more on one square metre,
\* more than three zones, a velocity past the threshold; the score is 100.
C24_Witness ==
    /\ last.kind = "risk"
    /\ last.person_count > 100
    /\ last.nzones > 3
    /\ last.avg_velocity > ANOMALY_MOVEMENT_THRESHOLD * 100
    /\ last.density_score = 100 * 100
    /\ last.density_factor = 40 * 10000
    /\ last.zone_factor = 30 * 10000
    /\ last.velocity_factor = 20 * 10000
    /\ last.count_factor = 10 * 10000
    /\ last.result.risk_score = 100 * 100

(***************************************************************************)
(* Properties of the pipeline (Spec), continued.                           *)
(***************************************************************************)
\* C25: whatever fps an opened file reports, every step that takes a sampled
\* frame of it (and ends at the yield or by an error of the analysis or the
\* drawing) makes the analyze call of that frame, with time_delta =
\* FRAME_SAMPLE_RATE / fps: the processing does not end on the time delta.
C25_FileTimeDelta ==
    [][\A s \in Sources :
          (/\ src[s].kind = "file"
           /\ src[s].pc = "reading"
           /\ src'[s].pc \in {"yielded", "raised"})
              => /\ last'.valid
                 /\ last'.src = s
                 /\ last'.time_delta * src[s].fps
                       = 1000 * TicksPerMs * FRAME_SAMPLE_RATE]_vars

\* C26: when a live stream attempts a read and a read failed before it with
\* no read attempted since, the stream has in between waited once, for the
\* backoff time, and then reopened the connection once, whether the reopen
\* gave an open capture or not.
C26_BackoffBeforeRead ==
    [][\A s \in Sources :
          (/\ src[s].kind = "rtsp"
           /\ src[s].pc = "reading"
           /\ src'[s].pc \in {"frame", "backoff"}
           /\ src[s].since_fail # <<>>)
              => /\ src[s].since_fail = <<"fail", "wait", "reopen">>
                 /\ src[s].waited_ms = BACKOFF_MS]_vars

\* A read has just failed on a capture that a reopen had left closed: the
\* second failure in a row, after a frame was delivered.
C26_Witness ==
    \E s \in Sources :
        /\ src[s].kind = "rtsp"
        /\ src[s].pc = "backoff"
        /\ ~src[s].cap_open
        /\ src[s].since_fail = <<"fail">>
        /\ Len(src[s].emitted) > 0

(***************************************************************************)
(* Properties of the analyzer on the scenarios (ScenarioSpec), continued.  *)
(***************************************************************************)
\* C27: the cluster list is empty when fewer than MIN_CLUSTER_SIZE centers
\* are given; every cluster returned has at least MIN_CLUSTER_SIZE points;
\* and the clusters are pairwise disjoint (no center belongs to two).
C27_ClusterMinSize ==
    Returned =>
        LET clusters == last.metrics.clusters
            nbr == Neighbors(last.detections)
            found == FitPredict(nbr, CoreSamples(nbr), 1, {}, <<>>)
        IN  /\ Len(last.detections) < MIN_CLUSTER_SIZE => clusters = <<>>
            /\ \A k \in 1..Len(clusters) : clusters[k].size >= MIN_CLUSTER_SIZE
            /\ \A a, b \in 1..Len(found) : a # b => found[a] \cap found[b] = {}
            /\ SumSeq([k \in 1..Len(clusters) |-> clusters[k].size])
                  <= Len(last.detections)

(***************************************************************************)
(* Properties of the pipeline (Spec): release of the captures.             *)
(***************************************************************************)

\* C28: a file source that has stopped producing results - at end-of-file or
\* on the quit key (done), by an error (raised) or because its consumer
\* dropped the generator at a yield (closed) - has its capture released.
C28_CaptureReleased ==
    \A s \in Sources :
        (src[s].kind = "file" /\ src[s].pc \in {"done", "raised", "closed"})
            => ~src[s].cap_open

\* The capture handles of a live stream that are open: the one cap is bound
\* to and the replaced ones.
OpenHandles(s) == src[s].stale_handles + (IF src[s].cap_open THEN 1 ELSE 0)

\* C29: a live stream has at most one capture handle open at any time, and
\* once it has returned after cancellation every handle it opened, those
\* replaced by reconnects included, is released.
C29_HandlesReleased ==
    \A s \in Sources :
        src[s].kind = "rtsp" =>
            /\ OpenHandles(s) <= 1
            /\ src[s].pc = "stopped" => OpenHandles(s) = 0

(***************************************************************************)
(* Properties of the analyzer (AnalyzerSpec), continued.                   *)
(***************************************************************************)
\* C30: the analyze call that immediately follows, on the same analyzer, a
\* call with zero detections returns avg_velocity 0.0, whatever its
\* positions and its time_delta, and stores its positions, so that the call
\* after it is the first that measures a velocity again.
C30_EmptyFrameResets ==
    [][(/\ last.valid
        /\ ~last.raised
        /\ Len(last.detections) = 0
        /\ last'.valid
        /\ ~last'.raised)
           => /\ last'.metrics.avg_velocity = 0
              /\ last'.raw_velocity = 0
              /\ analyzer'.has_previous
              /\ analyzer'.previous_positions = last'.detections]_vars

\* The call after an empty frame: a person is seen, a time_delta > 0 is
\* given, and no velocity is measured because the stored positions are empty.
C30_Witness ==
    /\ Returned
    /\ last.before.has_previous
    /\ last.before.previous_positions = <<>>
    /\ Len(last.detections) > 0
    /\ last.time_delta > 0
    /\ last.path = "empty_previous"
    /\ last.metrics.avg_velocity = 0
    /\ analyzer.previous_positions = last.detections

====
